---- MODULE Spec2Model ----
(***************************************************************************)
(* Reservation and allocation engine of rifa_multivendedor.py              *)
(* (class RifaManager).  The ledger is two worksheets, "ventas" and        *)
(* "reservas"; every gspread call (get_all_records, append_row,            *)
(* delete_rows) is one atomic step, and the local computation that follows *)
(* a call, up to the next call, belongs to the same step.  Time is counted *)
(* in minutes.                                                             *)
(***************************************************************************)
EXTENDS Integers, Sequences, FiniteSets, TLC

\* ------------------------------------------------------------------ bounds
MaxNumero == 1
MaxTime == 6
MaxLlamadas == 4
MaxNumeroSesion == 2
MaxFecha == 2

\* --------------------------------------------------------------- constants
minutos == 5

Numeros == 1..MaxNumero
Vendedores == {"A", "B"}
Compradores == {"X"}

VARIABLES
    ventas,          \* rows of worksheet "ventas" (header row left out)
    reservas,        \* rows of worksheet "reservas" (header row left out)
    now,             \* datetime.now()
    pc,              \* per seller: the ledger call its running method makes next
    op,              \* per seller: the RifaManager method the page called
    numero,          \* per seller: argument numero of the running method
    vendidos,        \* per seller: local dict returned by obtener_numeros_vendidos
    reservados,      \* per seller: local dict returned by obtener_numeros_reservados
    rows_to_delete,  \* per seller: local list of limpiar_reservas_expiradas
    fila,            \* per seller: row found by the loop of cancelar_reserva (0: none)
    ahora,           \* per seller: local now of reservar_numero
    ret,             \* per seller: value returned to the page
    llamadas,        \* number of methods the pages have called so far
    secuencial,      \* TRUE when the pages call their methods one after another
    inicio,          \* per seller: Reloj when the running method was called
    fallo,           \* per seller: a read feeding the running method's checks failed
    numero_reservado, \* per seller: st.session_state.numero_reservado (0: None)
    worksheet,       \* variants: rows of worksheet "ventas" (header row left out)
    df,              \* variants, per client: the DataFrame its page was drawn from
    pc_u,            \* rifa_reservas, per client: the cell update_number_status writes next
    fila_i           \* rifa_reservas, per client: row found by update_number_status (0: none)

vars == <<ventas, reservas, now, pc, op, numero, vendidos, reservados,
          rows_to_delete, fila, ahora, ret, llamadas, secuencial, inicio, fallo,
          numero_reservado, worksheet, df, pc_u, fila_i>>

\* the state of the two single-sheet variants (rifa_reservas.py and
\* rifa_multivendedor-100nros.py), which the engine of rifa_multivendedor.py
\* never touches
variantes == <<worksheet, df, pc_u, fila_i>>

\* the state of rifa_multivendedor.py apart from the clock
principal == <<ventas, reservas, pc, op, numero, vendidos, reservados,
               rows_to_delete, fila, ahora, ret, llamadas, secuencial, inicio,
               fallo, numero_reservado>>

\* ------------------------------------------------------------ ledger rows
\* the columns of a sale the engine writes and never reads back (telefono,
\* fecha_venta, timestamp) are left out
FilaVenta(n, c, v) == [numero |-> n, comprador |-> c, vendedor |-> v]

FilaReserva(n, v, t, e) == [numero |-> n, vendedor |-> v, timestamp_reserva |-> t, expira_en |-> e]

\* delete_rows called with i + 1 instead of i + 2: the row above goes, and
\* for the first data row the header
delete_rows_filaAnterior(hoja, k) ==
    IF k - 1 \in 1..Len(hoja)
    THEN [i \in 1..(Len(hoja) - 1) |-> IF i < k - 1 THEN hoja[i] ELSE hoja[i + 1]]
    ELSE hoja

\* worksheet.delete_rows(k): removes row k; a row below the data is empty
delete_rows(hoja, k) ==
    IF k \in 1..Len(hoja)
    THEN [i \in 1..(Len(hoja) - 1) |-> IF i < k THEN hoja[i] ELSE hoja[i + 1]]
    ELSE hoja

\* an append that is applied twice
append_row_doble(hoja, row) == Append(Append(hoja, row), row)

\* worksheet.append_row(row)
append_row(hoja, row) == Append(hoja, row)

\* {int(record['numero']): record for record in records if record['numero']}
\* a later row of the same numero replaces the earlier one
DictPorNumero(records) ==
    LET claves == {records[i].numero : i \in {j \in DOMAIN records : records[j].numero # 0}}
        ultima(n) == CHOOSE i \in DOMAIN records :
                        /\ records[i].numero = n
                        /\ \A j \in DOMAIN records : records[j].numero = n => j <= i
    IN [n \in claves |-> records[ultima(n)]]

\* a reap pass that finds no row expired
FilasExpiradas_ninguna(records, t, i) == <<>>

\* rows_to_delete of limpiar_reservas_expiradas, in increasing order
RECURSIVE FilasExpiradas(_, _, _)
FilasExpiradas(records, t, i) ==
    IF i > Len(records) THEN <<>>
    ELSE (IF t > records[i].expira_en THEN <<i>> ELSE <<>>)
         \o FilasExpiradas(records, t, i + 1)

\* cancelar_reserva matching the numero only
PrimeraFila_sinVendedor(records, n, v) ==
    LET S == {i \in DOMAIN records : records[i].numero = n}
    IN IF S = {} THEN 0 ELSE CHOOSE i \in S : \A j \in S : i <= j

\* the loop of cancelar_reserva: first row of (numero, vendedor), 0 when none
PrimeraFila(records, n, v) ==
    LET S == {i \in DOMAIN records : records[i].numero = n /\ records[i].vendedor = v}
    IN IF S = {} THEN 0 ELSE CHOOSE i \in S : \A j \in S : i <= j

\* the rows a reap pass whose deletes all succeed leaves in the sheet
SinVencidas(records, t) == SelectSeq(records, LAMBDA r : ~(t > r.expira_en))

\* the grid looking at numeros_reservados before numeros_vendidos
Estado_reservadoPrimero(n, dvendidos, dreservados) ==
    IF n \in DOMAIN dreservados THEN "reservado"
    ELSE IF n \in DOMAIN dvendidos THEN "vendido"
    ELSE "disponible"

\* the grid without its branch for numeros_vendidos
Estado_soloReservas(n, dvendidos, dreservados) ==
    IF n \in DOMAIN dreservados THEN "reservado" ELSE "disponible"

\* mostrar_grilla_numeros: the colour of number n (red, yellow, green)
Estado(n, dvendidos, dreservados) ==
    IF n \in DOMAIN dvendidos THEN "vendido"
    ELSE IF n \in DOMAIN dreservados THEN "reservado"
    ELSE "disponible"

\* proceso_venta: the list the selectbox of step 1 offers
numeros_disponibles(dvendidos, dreservados) ==
    {i \in Numeros : i \notin DOMAIN dvendidos /\ i \notin DOMAIN dreservados}

\* "Estadisticas en Vivo": the three metrics of the sidebar; the 100 of the
\* code is the size of the raffle
vendidos_count(dvendidos) == Cardinality(DOMAIN dvendidos)

reservados_count(dreservados) == Cardinality(DOMAIN dreservados)

disponibles_count(dvendidos, dreservados) ==
    MaxNumero - vendidos_count(dvendidos) - reservados_count(dreservados)

\* ----------------------------------------------------------- return values
SinRetorno == [ok |-> "-", msg |-> "-", quien |-> "-"]
Retorno(ok, msg, quien) == [ok |-> ok, msg |-> msg, quien |-> quien]
RetornoNone == Retorno("None", "-", "-")

DictVacio == <<>>

\* the two worksheets hold their header row only; no method is running
Inicio ==
    /\ ventas = <<>>
    /\ reservas = <<>>
    /\ now = 0
    /\ pc = [s \in Vendedores |-> "idle"]
    /\ op = [s \in Vendedores |-> "-"]
    /\ numero = [s \in Vendedores |-> 0]
    /\ vendidos = [s \in Vendedores |-> DictVacio]
    /\ reservados = [s \in Vendedores |-> DictVacio]
    /\ rows_to_delete = [s \in Vendedores |-> <<>>]
    /\ fila = [s \in Vendedores |-> 0]
    /\ ahora = [s \in Vendedores |-> 0]
    /\ ret = [s \in Vendedores |-> SinRetorno]
    /\ llamadas = 0
    /\ inicio = [s \in Vendedores |-> 0]
    /\ fallo = [s \in Vendedores |-> FALSE]
    /\ numero_reservado = [s \in Vendedores |-> 0]
    /\ worksheet = <<>>
    /\ df = [c \in Vendedores |-> <<>>]
    /\ pc_u = [c \in Vendedores |-> "idle"]
    /\ fila_i = [c \in Vendedores |-> 0]

\* the sellers' pages run at the same time
Init == Inicio /\ secuencial = FALSE

\* one page runs a method at a time
InitSeq == Inicio /\ secuencial = TRUE

\* seller s may start a method now
Libre(s) ==
    /\ pc[s] = "idle"
    /\ secuencial => \A o \in Vendedores : pc[o] = "idle"

\* the clock a call is stamped with; only the one-at-a-time runs keep it
Reloj == IF secuencial THEN now ELSE 0

\* the instants at which the passing of time can be seen: the expiry of a
\* lease that is in the ledger or about to be appended, and the minute after
Instantes ==
    LET expiran == {reservas[i].expira_en : i \in DOMAIN reservas}
                   \cup {ahora[s] + minutos : s \in {v \in Vendedores : pc[v] = "agregar_reserva"}}
    IN {t \in expiran \cup {e + 1 : e \in expiran} : t > now /\ t <= MaxTime}

\* time passes
Tick ==
    /\ \E t \in Instantes : now' = t
    /\ UNCHANGED <<ventas, reservas, pc, op, numero, vendidos, reservados,
                   rows_to_delete, fila, ahora, ret, llamadas, secuencial, variantes,
                   numero_reservado,
                   inicio, fallo>>

\* ------------------------------------------------------- calls of the page
\* module level of the page: numeros_vendidos, numeros_reservados
CargarPagina(s) ==
    /\ Libre(s)
    /\ llamadas < MaxLlamadas
    /\ llamadas' = llamadas + 1
    /\ inicio' = [inicio EXCEPT ![s] = Reloj]
    /\ pc' = [pc EXCEPT ![s] = "leer_ventas"]
    /\ op' = [op EXCEPT ![s] = "cargar"]
    /\ UNCHANGED <<ventas, reservas, now, numero, vendidos, reservados,
                   rows_to_delete, fila, ahora, ret, secuencial, variantes,
                   numero_reservado,
                   fallo>>

\* the script runs again (auto-refresh, the "Actualizar" button): the same
\* two reads, not counted in the budget of calls
Recargar(s) ==
    /\ Libre(s)
    /\ inicio' = [inicio EXCEPT ![s] = Reloj]
    /\ pc' = [pc EXCEPT ![s] = "leer_ventas"]
    /\ op' = [op EXCEPT ![s] = "cargar"]
    /\ UNCHANGED <<ventas, reservas, now, numero, vendidos, reservados,
                   rows_to_delete, fila, ahora, ret, llamadas, secuencial, variantes,
                   fallo, numero_reservado>>

\* proceso_venta: rifa_manager.reservar_numero(numero_elegido, vendedor)
LlamarReservar(s, n) ==
    /\ Libre(s)
    /\ llamadas < MaxLlamadas
    /\ llamadas' = llamadas + 1
    /\ inicio' = [inicio EXCEPT ![s] = Reloj]
    /\ pc' = [pc EXCEPT ![s] = "leer_ventas"]
    /\ op' = [op EXCEPT ![s] = "reservar"]
    /\ numero' = [numero EXCEPT ![s] = n]
    /\ UNCHANGED <<ventas, reservas, now, vendidos, reservados,
                   rows_to_delete, fila, ahora, ret, secuencial, variantes,
                   numero_reservado,
                   fallo>>

\* proceso_venta: rifa_manager.confirmar_venta(numero, comprador, telefono, vendedor)
LlamarConfirmar(s, n) ==
    /\ Libre(s)
    /\ llamadas < MaxLlamadas
    /\ llamadas' = llamadas + 1
    /\ inicio' = [inicio EXCEPT ![s] = Reloj]
    /\ pc' = [pc EXCEPT ![s] = "limpiar_leer"]
    /\ op' = [op EXCEPT ![s] = "confirmar"]
    /\ numero' = [numero EXCEPT ![s] = n]
    /\ UNCHANGED <<ventas, reservas, now, vendidos, reservados,
                   rows_to_delete, fila, ahora, ret, secuencial, variantes,
                   numero_reservado,
                   fallo>>

\* proceso_venta: rifa_manager.cancelar_reserva(numero, vendedor)
LlamarCancelar(s, n) ==
    /\ Libre(s)
    /\ llamadas < MaxLlamadas
    /\ llamadas' = llamadas + 1
    /\ inicio' = [inicio EXCEPT ![s] = Reloj]
    /\ pc' = [pc EXCEPT ![s] = "cancelar_leer"]
    /\ op' = [op EXCEPT ![s] = "cancelar"]
    /\ numero' = [numero EXCEPT ![s] = n]
    /\ UNCHANGED <<ventas, reservas, now, vendidos, reservados,
                   rows_to_delete, fila, ahora, ret, secuencial, variantes,
                   numero_reservado,
                   fallo>>

\* ------------------------------------------------ obtener_numeros_vendidos
LeerVentas(s) ==
    /\ pc[s] = "leer_ventas"
    /\ vendidos' = [vendidos EXCEPT ![s] = DictPorNumero(ventas)]
    /\ pc' = [pc EXCEPT ![s] = "limpiar_leer"]
    /\ UNCHANGED <<ventas, reservas, now, op, numero, reservados,
                   rows_to_delete, fila, ahora, ret, llamadas, secuencial, variantes,
                   numero_reservado,
                   inicio, fallo>>

\* ---------------------------------------------- limpiar_reservas_expiradas
\* records = get_all_records(); now = datetime.now(); the loop filling rows_to_delete
LimpiarLeer(s) ==
    /\ pc[s] = "limpiar_leer"
    /\ LET filas == FilasExpiradas(reservas, now, 1)
       IN /\ rows_to_delete' = [rows_to_delete EXCEPT ![s] = filas]
          /\ pc' = [pc EXCEPT ![s] = IF filas = <<>> THEN "leer_reservas"
                                     ELSE "limpiar_borrar"]
    /\ UNCHANGED <<ventas, reservas, now, op, numero, vendidos, reservados,
                   fila, ahora, ret, llamadas, secuencial, variantes,
                   numero_reservado,
                   inicio, fallo>>

\* the loop of the reap deleting its rows from the sheet of sales
LimpiarBorrar_enVentas(s) ==
    /\ pc[s] = "limpiar_borrar"
    /\ LET filas == rows_to_delete[s]
           resto == SubSeq(filas, 1, Len(filas) - 1)
       IN /\ ventas' = delete_rows(ventas, filas[Len(filas)])
          /\ rows_to_delete' = [rows_to_delete EXCEPT ![s] = resto]
          /\ pc' = [pc EXCEPT ![s] = IF resto = <<>> THEN "leer_reservas"
                                     ELSE "limpiar_borrar"]
    /\ UNCHANGED <<reservas, now, op, numero, vendidos, reservados,
                   fila, ahora, ret, llamadas, secuencial, variantes, inicio, fallo,
                   numero_reservado>>

\* one pass of "for row_num in reversed(rows_to_delete): delete_rows(row_num)"
LimpiarBorrar(s) ==
    /\ pc[s] = "limpiar_borrar"
    /\ LET filas == rows_to_delete[s]
           resto == SubSeq(filas, 1, Len(filas) - 1)
       IN /\ reservas' = delete_rows(reservas, filas[Len(filas)])
          /\ rows_to_delete' = [rows_to_delete EXCEPT ![s] = resto]
          /\ pc' = [pc EXCEPT ![s] = IF resto = <<>> THEN "leer_reservas"
                                     ELSE "limpiar_borrar"]
    /\ UNCHANGED <<ventas, now, op, numero, vendidos, reservados,
                   fila, ahora, ret, llamadas, secuencial, variantes,
                   numero_reservado,
                   inicio, fallo>>

\* -------------------------- obtener_numeros_reservados, read after the reap
\* page load: numeros_reservados = rifa_manager.obtener_numeros_reservados()
CargarLeerReservas(s) ==
    /\ pc[s] = "leer_reservas"
    /\ op[s] = "cargar"
    /\ reservados' = [reservados EXCEPT ![s] = DictPorNumero(reservas)]
    /\ pc' = [pc EXCEPT ![s] = "retorno"]
    /\ ret' = [ret EXCEPT ![s] = RetornoNone]
    /\ UNCHANGED <<ventas, reservas, now, op, numero, vendidos,
                   rows_to_delete, fila, ahora, llamadas, secuencial, variantes,
                   numero_reservado,
                   inicio, fallo>>

\* --------------------------------------------------------- reservar_numero
\* reservar_numero without its check of reservados
DecisionReservar_sinReservados(n, dvendidos, dreservados) ==
    IF n \in DOMAIN dvendidos
    THEN Retorno("False", "Numero ya vendido", "-")
    ELSE SinRetorno

\* reservar_numero without its check of vendidos
DecisionReservar_sinVendidos(n, dvendidos, dreservados) ==
    IF n \in DOMAIN dreservados
    THEN Retorno("False", "Numero reservado por", dreservados[n].vendedor)
    ELSE SinRetorno

\* the decision of reservar_numero on its two dicts
DecisionReservar(n, dvendidos, dreservados) ==
    IF n \in DOMAIN dvendidos
    THEN Retorno("False", "Numero ya vendido", "-")
    ELSE IF n \in DOMAIN dreservados
    THEN Retorno("False", "Numero reservado por", dreservados[n].vendedor)
    ELSE SinRetorno

\* reservados = obtener_numeros_reservados(); the two checks; now = datetime.now()
ReservarVerificar(s) ==
    /\ pc[s] = "leer_reservas"
    /\ op[s] = "reservar"
    /\ LET dreservados == DictPorNumero(reservas)
           r == DecisionReservar(numero[s], vendidos[s], dreservados)
       IN IF r # SinRetorno
          THEN /\ ret' = [ret EXCEPT ![s] = r]
               /\ pc' = [pc EXCEPT ![s] = "retorno"]
               /\ vendidos' = [vendidos EXCEPT ![s] = DictVacio]
               /\ UNCHANGED <<reservados, ahora>>
          ELSE /\ ahora' = [ahora EXCEPT ![s] = now]
               /\ pc' = [pc EXCEPT ![s] = "agregar_reserva"]
               /\ vendidos' = [vendidos EXCEPT ![s] = DictVacio]
               /\ UNCHANGED <<reservados, ret>>
    /\ UNCHANGED <<ventas, reservas, now, op, numero, rows_to_delete, fila,
                   llamadas, secuencial, variantes,
                   numero_reservado,
                   inicio, fallo>>

\* reservas_worksheet.append_row([numero, vendedor, now, expira]); return True
AgregarReserva(s) ==
    /\ pc[s] = "agregar_reserva"
    /\ reservas' = append_row(reservas,
                      FilaReserva(numero[s], s, ahora[s], ahora[s] + minutos))
    /\ ret' = [ret EXCEPT ![s] = Retorno("True", "Numero reservado exitosamente", "-")]
    /\ pc' = [pc EXCEPT ![s] = "retorno"]
    /\ ahora' = [ahora EXCEPT ![s] = 0]
    /\ UNCHANGED <<ventas, now, op, numero, vendidos, reservados,
                   rows_to_delete, fila, llamadas, secuencial, variantes,
                   numero_reservado,
                   inicio, fallo>>

\* --------------------------------------------------------- confirmar_venta
\* confirmar_venta without its check that the number is reserved
DecisionConfirmar_sinReserva(n, v, dreservados) ==
    IF n \in DOMAIN dreservados /\ dreservados[n].vendedor # v
    THEN Retorno("False", "No tienes la reserva de este numero", "-")
    ELSE SinRetorno

\* confirmar_venta without its check of the owner
DecisionConfirmar_sinVendedor(n, v, dreservados) ==
    IF n \notin DOMAIN dreservados
    THEN Retorno("False", "Numero no esta reservado", "-")
    ELSE SinRetorno

\* the decision of confirmar_venta on its dict
DecisionConfirmar(n, v, dreservados) ==
    IF n \notin DOMAIN dreservados
    THEN Retorno("False", "Numero no esta reservado", "-")
    ELSE IF dreservados[n].vendedor # v
    THEN Retorno("False", "No tienes la reserva de este numero", "-")
    ELSE SinRetorno

\* reservados = obtener_numeros_reservados(); the two checks; now = datetime.now()
ConfirmarVerificar(s) ==
    /\ pc[s] = "leer_reservas"
    /\ op[s] = "confirmar"
    /\ LET r == DecisionConfirmar(numero[s], s, DictPorNumero(reservas))
       IN IF r # SinRetorno
          THEN /\ ret' = [ret EXCEPT ![s] = r]
               /\ pc' = [pc EXCEPT ![s] = "retorno"]
               /\ UNCHANGED ahora
          ELSE /\ ahora' = [ahora EXCEPT ![s] = now]
               /\ pc' = [pc EXCEPT ![s] = "agregar_venta"]
               /\ UNCHANGED ret
    /\ UNCHANGED <<ventas, reservas, now, op, numero, vendidos, reservados,
                   rows_to_delete, fila, llamadas, secuencial, variantes,
                   numero_reservado,
                   inicio, fallo>>

\* ventas_worksheet.append_row([numero, comprador, telefono, vendedor, ...])
AgregarVenta(s) ==
    /\ pc[s] = "agregar_venta"
    /\ \E c \in Compradores :
          ventas' = append_row(ventas, FilaVenta(numero[s], c, s))
    /\ pc' = [pc EXCEPT ![s] = "cancelar_leer"]
    /\ ahora' = [ahora EXCEPT ![s] = 0]
    /\ UNCHANGED <<reservas, now, op, numero, vendidos, reservados,
                   rows_to_delete, fila, ret, llamadas, secuencial, variantes,
                   numero_reservado,
                   inicio, fallo>>

\* -------------------------------------------------------- cancelar_reserva
\* what the caller of cancelar_reserva gets once it is over: cancelar_reserva
\* itself has no return statement; confirmar_venta goes on to return True
RetornoTrasCancelar(o) ==
    IF o = "confirmar"
    THEN Retorno("True", "Venta confirmada exitosamente", "-")
    ELSE RetornoNone

\* records = get_all_records(); the loop up to the matching row
CancelarLeer(s) ==
    /\ pc[s] = "cancelar_leer"
    /\ LET k == PrimeraFila(reservas, numero[s], s)
       IN IF k = 0
          THEN /\ ret' = [ret EXCEPT ![s] = RetornoTrasCancelar(op[s])]
               /\ pc' = [pc EXCEPT ![s] = "retorno"]
               /\ UNCHANGED fila
          ELSE /\ fila' = [fila EXCEPT ![s] = k]
               /\ pc' = [pc EXCEPT ![s] = "cancelar_borrar"]
               /\ UNCHANGED ret
    /\ UNCHANGED <<ventas, reservas, now, op, numero, vendidos, reservados,
                   rows_to_delete, ahora, llamadas, secuencial, variantes,
                   numero_reservado,
                   inicio, fallo>>

\* reservas_worksheet.delete_rows(i + 2); break
CancelarBorrar(s) ==
    /\ pc[s] = "cancelar_borrar"
    /\ reservas' = delete_rows(reservas, fila[s])
    /\ fila' = [fila EXCEPT ![s] = 0]
    /\ ret' = [ret EXCEPT ![s] = RetornoTrasCancelar(op[s])]
    /\ pc' = [pc EXCEPT ![s] = "retorno"]
    /\ UNCHANGED <<ventas, now, op, numero, vendidos, reservados,
                   rows_to_delete, ahora, llamadas, secuencial, variantes,
                   numero_reservado,
                   inicio, fallo>>

\* the page has used the returned value; the script reruns (st.rerun())
Retornar(s) ==
    /\ pc[s] = "retorno"
    /\ pc' = [pc EXCEPT ![s] = "idle"]
    /\ op' = [op EXCEPT ![s] = "-"]
    /\ numero' = [numero EXCEPT ![s] = 0]
    /\ ret' = [ret EXCEPT ![s] = SinRetorno]
    /\ vendidos' = [vendidos EXCEPT ![s] = DictVacio]
    /\ reservados' = [reservados EXCEPT ![s] = DictVacio]
    /\ inicio' = [inicio EXCEPT ![s] = 0]
    /\ fallo' = [fallo EXCEPT ![s] = FALSE]
    /\ UNCHANGED <<ventas, reservas, now, rows_to_delete, fila, ahora, llamadas,
                   secuencial, variantes, numero_reservado>>

\* ------------------------------------------- a call to the sheet that raises
\* obtener_numeros_vendidos: get_all_records raises; except: return {}
LeerVentasFalla(s) ==
    /\ pc[s] = "leer_ventas"
    /\ vendidos' = [vendidos EXCEPT ![s] = DictVacio]
    /\ fallo' = [fallo EXCEPT ![s] = TRUE]
    /\ pc' = [pc EXCEPT ![s] = "limpiar_leer"]
    /\ UNCHANGED <<ventas, reservas, now, op, numero, reservados,
                   rows_to_delete, fila, ahora, ret, llamadas, secuencial, variantes,
                   numero_reservado,
                   inicio>>

\* limpiar_reservas_expiradas: get_all_records raises; st.warning, no delete
LimpiarLeerFalla(s) ==
    /\ pc[s] = "limpiar_leer"
    /\ pc' = [pc EXCEPT ![s] = "leer_reservas"]
    /\ UNCHANGED <<ventas, reservas, now, op, numero, vendidos, reservados,
                   rows_to_delete, fila, ahora, ret, llamadas, secuencial, variantes,
                   numero_reservado,
                   inicio, fallo>>

\* limpiar_reservas_expiradas: delete_rows raises; the loop is left, st.warning
LimpiarBorrarFalla(s) ==
    /\ pc[s] = "limpiar_borrar"
    /\ rows_to_delete' = [rows_to_delete EXCEPT ![s] = <<>>]
    /\ pc' = [pc EXCEPT ![s] = "leer_reservas"]
    /\ UNCHANGED <<ventas, reservas, now, op, numero, vendidos, reservados,
                   fila, ahora, ret, llamadas, secuencial, variantes,
                   numero_reservado,
                   inicio, fallo>>

\* page load: obtener_numeros_reservados: get_all_records raises; return {}
CargarLeerReservasFalla(s) ==
    /\ pc[s] = "leer_reservas"
    /\ op[s] = "cargar"
    /\ reservados' = [reservados EXCEPT ![s] = DictVacio]
    /\ fallo' = [fallo EXCEPT ![s] = TRUE]
    /\ pc' = [pc EXCEPT ![s] = "retorno"]
    /\ ret' = [ret EXCEPT ![s] = RetornoNone]
    /\ UNCHANGED <<ventas, reservas, now, op, numero, vendidos,
                   rows_to_delete, fila, ahora, llamadas, secuencial, variantes,
                   numero_reservado,
                   inicio>>

\* reservar_numero: obtener_numeros_reservados returned {} from its except
ReservarVerificarFalla(s) ==
    /\ pc[s] = "leer_reservas"
    /\ op[s] = "reservar"
    /\ fallo' = [fallo EXCEPT ![s] = TRUE]
    /\ LET r == DecisionReservar(numero[s], vendidos[s], DictVacio)
       IN IF r # SinRetorno
          THEN /\ ret' = [ret EXCEPT ![s] = r]
               /\ pc' = [pc EXCEPT ![s] = "retorno"]
               /\ vendidos' = [vendidos EXCEPT ![s] = DictVacio]
               /\ UNCHANGED <<reservados, ahora>>
          ELSE /\ ahora' = [ahora EXCEPT ![s] = now]
               /\ pc' = [pc EXCEPT ![s] = "agregar_reserva"]
               /\ vendidos' = [vendidos EXCEPT ![s] = DictVacio]
               /\ UNCHANGED <<reservados, ret>>
    /\ UNCHANGED <<ventas, reservas, now, op, numero, rows_to_delete, fila,
                   llamadas, secuencial, variantes, numero_reservado, inicio>>

\* reservar_numero: append_row raises; return False, "Error reservando: ..."
AgregarReservaFalla(s) ==
    /\ pc[s] = "agregar_reserva"
    /\ ret' = [ret EXCEPT ![s] = Retorno("False", "Error reservando", "-")]
    /\ pc' = [pc EXCEPT ![s] = "retorno"]
    /\ ahora' = [ahora EXCEPT ![s] = 0]
    /\ UNCHANGED <<ventas, reservas, now, op, numero, vendidos, reservados,
                   rows_to_delete, fila, llamadas, secuencial, variantes,
                   numero_reservado,
                   inicio, fallo>>

\* confirmar_venta: obtener_numeros_reservados returned {} from its except
ConfirmarVerificarFalla(s) ==
    /\ pc[s] = "leer_reservas"
    /\ op[s] = "confirmar"
    /\ fallo' = [fallo EXCEPT ![s] = TRUE]
    /\ ret' = [ret EXCEPT ![s] = DecisionConfirmar(numero[s], s, DictVacio)]
    /\ pc' = [pc EXCEPT ![s] = "retorno"]
    /\ UNCHANGED <<ventas, reservas, now, op, numero, vendidos, reservados,
                   rows_to_delete, fila, ahora, llamadas, secuencial, variantes,
                   numero_reservado,
                   inicio>>

\* a confirmar_venta that goes on to cancelar_reserva after its append raised
AgregarVentaFalla_sigue(s) ==
    /\ pc[s] = "agregar_venta"
    /\ pc' = [pc EXCEPT ![s] = "cancelar_leer"]
    /\ ahora' = [ahora EXCEPT ![s] = 0]
    /\ UNCHANGED <<ventas, reservas, now, op, numero, vendidos, reservados,
                   rows_to_delete, fila, ret, llamadas, secuencial, variantes,
                   numero_reservado, inicio, fallo>>

\* confirmar_venta: append_row raises; return False, "Error confirmando venta: ..."
AgregarVentaFalla(s) ==
    /\ pc[s] = "agregar_venta"
    /\ ret' = [ret EXCEPT ![s] = Retorno("False", "Error confirmando venta", "-")]
    /\ pc' = [pc EXCEPT ![s] = "retorno"]
    /\ ahora' = [ahora EXCEPT ![s] = 0]
    /\ UNCHANGED <<ventas, reservas, now, op, numero, vendidos, reservados,
                   rows_to_delete, fila, llamadas, secuencial, variantes,
                   numero_reservado,
                   inicio, fallo>>

\* cancelar_reserva: get_all_records raises; st.warning, the caller goes on
CancelarLeerFalla(s) ==
    /\ pc[s] = "cancelar_leer"
    /\ ret' = [ret EXCEPT ![s] = RetornoTrasCancelar(op[s])]
    /\ pc' = [pc EXCEPT ![s] = "retorno"]
    /\ UNCHANGED <<ventas, reservas, now, op, numero, vendidos, reservados,
                   rows_to_delete, fila, ahora, llamadas, secuencial, variantes,
                   numero_reservado,
                   inicio, fallo>>

\* cancelar_reserva: delete_rows raises; st.warning, the caller goes on
CancelarBorrarFalla(s) ==
    /\ pc[s] = "cancelar_borrar"
    /\ fila' = [fila EXCEPT ![s] = 0]
    /\ ret' = [ret EXCEPT ![s] = RetornoTrasCancelar(op[s])]
    /\ pc' = [pc EXCEPT ![s] = "retorno"]
    /\ UNCHANGED <<ventas, reservas, now, op, numero, vendidos, reservados,
                   rows_to_delete, ahora, llamadas, secuencial, variantes,
                   numero_reservado,
                   inicio, fallo>>

\* ---------------------------------------------------- the seller's session
\* the numbers the page of a session offers
NumerosSesion == 1..MaxNumeroSesion

\* "Informacion de reserva actual": numero_reservado after the block; it is
\* set to None only when the row is in the snapshot, is the seller's, and
\* has no time left
CuentaAtras(p, s, dreservados, t) ==
    IF /\ p # 0
       /\ p \in DOMAIN dreservados
       /\ dreservados[p].vendedor = s
       /\ ~(dreservados[p].expira_en - t > 0)
    THEN 0
    ELSE p

\* numero_reservado after the page has handled what method o returned
PunteroTras(o, p, n, r, s, dreservados, t) ==
    IF o = "reservar" THEN (IF r.ok = "True" THEN n ELSE p)
    ELSE IF o = "confirmar" THEN (IF r.ok = "True" THEN 0 ELSE p)
    ELSE IF o = "cancelar" THEN 0
    ELSE CuentaAtras(p, s, dreservados, t)

\* step 1 of proceso_venta, shown while numero_reservado is None
SesionReservar(s, n) ==
    /\ numero_reservado[s] = 0
    /\ LlamarReservar(s, n)

\* step 2 of proceso_venta: "Confirmar Venta" of numero_reservado
SesionConfirmar(s) ==
    /\ numero_reservado[s] # 0
    /\ LlamarConfirmar(s, numero_reservado[s])

\* step 2 of proceso_venta: "Cancelar Reserva" of numero_reservado
SesionCancelar(s) ==
    /\ numero_reservado[s] # 0
    /\ LlamarCancelar(s, numero_reservado[s])

\* the page uses what the method returned and the script reruns
SesionRetornar(s) ==
    /\ pc[s] = "retorno"
    /\ numero_reservado' =
          [numero_reservado EXCEPT
              ![s] = PunteroTras(op[s], numero_reservado[s], numero[s], ret[s],
                                 s, reservados[s], now)]
    /\ pc' = [pc EXCEPT ![s] = "idle"]
    /\ op' = [op EXCEPT ![s] = "-"]
    /\ numero' = [numero EXCEPT ![s] = 0]
    /\ ret' = [ret EXCEPT ![s] = SinRetorno]
    /\ vendidos' = [vendidos EXCEPT ![s] = DictVacio]
    /\ reservados' = [reservados EXCEPT ![s] = DictVacio]
    /\ inicio' = [inicio EXCEPT ![s] = 0]
    /\ fallo' = [fallo EXCEPT ![s] = FALSE]
    /\ UNCHANGED <<ventas, reservas, now, rows_to_delete, fila, ahora, llamadas,
                   secuencial, variantes>>

\* ---------------------------------------------------------- specifications
Paso(s) ==
    \/ CargarPagina(s)
    \/ \E n \in Numeros : LlamarReservar(s, n)
    \/ \E n \in Numeros : LlamarConfirmar(s, n)
    \/ \E n \in Numeros : LlamarCancelar(s, n)
    \/ LeerVentas(s)
    \/ LimpiarLeer(s)
    \/ LimpiarBorrar(s)
    \/ CargarLeerReservas(s)
    \/ ReservarVerificar(s)
    \/ AgregarReserva(s)
    \/ ConfirmarVerificar(s)
    \/ AgregarVenta(s)
    \/ CancelarLeer(s)
    \/ CancelarBorrar(s)
    \/ Retornar(s)

\* sellers' methods interleave at every ledger call
Next == Tick \/ \E s \in Vendedores : Paso(s)

Spec == Init /\ [][Next]_vars

\* methods run one after another
SpecSeq == InitSeq /\ [][Next]_vars

\* numbers outside 1..100 (here 1..MaxNumero) on either side
NumerosInvalidos == {0, MaxNumero + 1}

\* reservar_numero is also called with a number that is not of the raffle
NextArg ==
    \/ Next
    \/ \E s \in Vendedores : \E n \in NumerosInvalidos : LlamarReservar(s, n)

SpecArg == InitSeq /\ [][NextArg]_vars

\* the steps of a method when calls to the sheet can raise
PasoFalla(s) ==
    \/ LeerVentasFalla(s)
    \/ LimpiarLeerFalla(s)
    \/ LimpiarBorrarFalla(s)
    \/ CargarLeerReservasFalla(s)
    \/ ReservarVerificarFalla(s)
    \/ AgregarReservaFalla(s)
    \/ ConfirmarVerificarFalla(s)
    \/ AgregarVentaFalla(s)
    \/ CancelarLeerFalla(s)
    \/ CancelarBorrarFalla(s)

NextFalla == Next \/ \E s \in Vendedores : PasoFalla(s)

\* methods one after another, every call to the sheet may raise
SpecFalla == InitSeq /\ [][NextFalla]_vars

\* a method that has been called runs on: every step that is not a call
Continuar(s) ==
    \/ LeerVentas(s)
    \/ CargarLeerReservas(s)
    \/ ReservarVerificar(s)
    \/ AgregarReserva(s)
    \/ ConfirmarVerificar(s)
    \/ AgregarVenta(s)
    \/ CancelarLeer(s)
    \/ CancelarBorrar(s)
    \/ Retornar(s)

\* the pages keep reloading, and the sheet calls of the reap may raise
NextViva ==
    \/ Next
    \/ \E s \in Vendedores : Recargar(s)
    \/ \E s \in Vendedores : LimpiarLeerFalla(s)
    \/ \E s \in Vendedores : LimpiarBorrarFalla(s)

\* the pages keep reloading, a called method runs to its end, and the sheet
\* calls of the reap do not raise forever
EquidadViva ==
    \A s \in Vendedores :
        /\ WF_vars(Recargar(s))
        /\ WF_vars(Continuar(s))
        /\ SF_vars(LimpiarLeer(s))
        /\ SF_vars(LimpiarBorrar(s))

SpecViva == InitSeq /\ [][NextViva]_vars /\ EquidadViva

\* the steps of a method that succeed, the calls and the return left out
Metodo(s) ==
    \/ LeerVentas(s)
    \/ LimpiarLeer(s)
    \/ LimpiarBorrar(s)
    \/ CargarLeerReservas(s)
    \/ ReservarVerificar(s)
    \/ AgregarReserva(s)
    \/ ConfirmarVerificar(s)
    \/ AgregarVenta(s)
    \/ CancelarLeer(s)
    \/ CancelarBorrar(s)

\* what the page of seller s can do
PasoSesion(s) ==
    \/ Recargar(s)
    \/ \E n \in NumerosSesion : SesionReservar(s, n)
    \/ SesionConfirmar(s)
    \/ SesionCancelar(s)
    \/ Metodo(s)
    \/ SesionRetornar(s)

NextSesion == Tick \/ \E s \in Vendedores : PasoSesion(s)

\* every page reloads again and again, and a called method runs on to its
\* return
EquidadSesion ==
    \A s \in Vendedores :
        /\ SF_vars(Recargar(s))
        /\ WF_vars(Metodo(s) \/ SesionRetornar(s))

\* the sessions of the sellers, one page at a time
SpecSesion == InitSeq /\ [][NextSesion]_vars /\ EquidadSesion

NextSesionFalla == NextSesion \/ \E s \in Vendedores : PasoFalla(s)

\* the sessions of the sellers, one page at a time, sheet calls may raise
SpecSesionFalla == InitSeq /\ [][NextSesionFalla]_vars

\* ------------------------------------- rifa_reservas.py: one sheet, a state column
\* a row of worksheet "ventas"; the columns no decision reads (nombre_comprador,
\* telefono, email, monto, observaciones) are left out
FilaHoja(f, v, n, e) == [fecha |-> f, vendedor |-> v, numero |-> n, estado |-> e]

\* df[df['estado'] == e]['numero'].astype(int).tolist()
Columna(d, e) ==
    LET sel == SelectSeq(d, LAMBDA r : r.estado = e)
    IN [k \in 1..Len(sel) |-> sel[k].numero]

Rango(l) == {l[k] : k \in DOMAIN l}

\* list(S) of a set of numbers: every element once
Lista(S) == SelectSeq([k \in 1..MaxNumero |-> k], LAMBDA k : k \in S)

get_numbers_by_status(d) ==
    IF d = <<>>
    THEN [disponibles |-> Lista(Numeros), reservados |-> <<>>, vendidos |-> <<>>]
    ELSE LET lvendidos == Columna(d, "vendido")
             lreservados == Columna(d, "reservado")
             ocupados == Rango(lvendidos \o lreservados)
         IN [disponibles |-> Lista(Numeros \ ocupados),
             reservados |-> lreservados,
             vendidos |-> lvendidos]

\* the loop of update_number_status: the first row of the number (0: none)
BuscarFila(h, n) ==
    IF \E i \in DOMAIN h : h[i].numero = n
    THEN CHOOSE i \in DOMAIN h :
            h[i].numero = n /\ \A j \in 1..(i - 1) : h[j].numero # n
    ELSE 0

\* datetime.now() moves on
Pasa ==
    /\ now < MaxFecha
    /\ now' = now + 1
    /\ UNCHANGED <<principal, variantes>>

\* a script run: df = get_sheet_data(gc, sheet_id)
CargarHoja(c) ==
    /\ pc_u[c] = "idle"
    /\ df' = [df EXCEPT ![c] = worksheet]
    /\ UNCHANGED <<now, principal, worksheet, pc_u, fila_i>>

\* page "Reservar Numero": the form offers numbers_status['disponibles'] of the
\* page's df; the row is appended and the script reruns
ReservarPublico(c, n) ==
    /\ pc_u[c] = "idle"
    /\ n \in Rango(get_numbers_by_status(df[c]).disponibles)
    /\ worksheet' = Append(worksheet, FilaHoja(now, "Pendiente confirmacion", n, "reservado"))
    /\ df' = [df EXCEPT ![c] = worksheet']
    /\ UNCHANGED <<now, principal, pc_u, fila_i>>

\* update_number_status up to its first write: get_all_values and the search;
\* without a row of the number it returns False and the page shows an error
update_number_status(c, n) ==
    LET i == BuscarFila(worksheet, n)
    IN IF i = 0
       THEN UNCHANGED variantes
       ELSE /\ fila_i' = [fila_i EXCEPT ![c] = i]
            /\ pc_u' = [pc_u EXCEPT ![c] = "estado"]
            /\ UNCHANGED <<worksheet, df>>

\* tab "Confirmar Reservas": the button of a row of df with estado 'reservado'
ConfirmarReserva(c, n) ==
    /\ pc_u[c] = "idle"
    /\ \E k \in DOMAIN df[c] : df[c][k].estado = "reservado" /\ df[c][k].numero = n
    /\ update_number_status(c, n)
    /\ UNCHANGED <<now, principal>>

\* tab "Ventas Directas": the form offers disponibles + reservados of the page's
\* df; a number df has a row of is updated, any other gets a new row 'vendido'
VentaDirecta(c, n) ==
    /\ pc_u[c] = "idle"
    /\ LET st == get_numbers_by_status(df[c])
       IN n \in Rango(st.disponibles \o st.reservados)
    /\ IF \E k \in DOMAIN df[c] : df[c][k].numero = n
       THEN update_number_status(c, n)
       ELSE /\ worksheet' = Append(worksheet, FilaHoja(now, c, n, "vendido"))
            /\ df' = [df EXCEPT ![c] = worksheet']
            /\ UNCHANGED <<pc_u, fila_i>>
    /\ UNCHANGED <<now, principal>>

\* worksheet.update_cell(i, 8, new_status)
ActualizarEstado(c) ==
    /\ pc_u[c] = "estado"
    /\ worksheet' = [worksheet EXCEPT ![fila_i[c]].estado = "vendido"]
    /\ pc_u' = [pc_u EXCEPT ![c] = "vendedor"]
    /\ UNCHANGED <<now, principal, df, fila_i>>

\* worksheet.update_cell(i, 2, vendedor_name)
ActualizarVendedor(c) ==
    /\ pc_u[c] = "vendedor"
    /\ worksheet' = [worksheet EXCEPT ![fila_i[c]].vendedor = c]
    /\ pc_u' = [pc_u EXCEPT ![c] = "fecha"]
    /\ UNCHANGED <<now, principal, df, fila_i>>

\* worksheet.update_cell(i, 1, now); return True and the script reruns
ActualizarFecha(c) ==
    /\ pc_u[c] = "fecha"
    /\ worksheet' = [worksheet EXCEPT ![fila_i[c]].fecha = now]
    /\ pc_u' = [pc_u EXCEPT ![c] = "idle"]
    /\ fila_i' = [fila_i EXCEPT ![c] = 0]
    /\ df' = [df EXCEPT ![c] = worksheet']
    /\ UNCHANGED <<now, principal>>

NextReservas ==
    \/ Pasa
    \/ \E c \in Vendedores :
          \/ CargarHoja(c)
          \/ \E n \in Numeros : ReservarPublico(c, n)
          \/ \E n \in Numeros : ConfirmarReserva(c, n)
          \/ \E n \in Numeros : VentaDirecta(c, n)
          \/ ActualizarEstado(c)
          \/ ActualizarVendedor(c)
          \/ ActualizarFecha(c)

\* the clients of rifa_reservas.py, every page open at the same time
SpecReservas == Init /\ [][NextReservas]_vars

\* ------------------------- rifa_multivendedor-100nros.py: one sheet, direct sales
get_available_numbers(d) ==
    IF d = <<>>
    THEN Lista(Numeros)
    ELSE LET sold_numbers == Columna(d, "vendido")
         IN Lista({num \in Numeros : num \notin Rango(sold_numbers)})

\* a script run: df = get_sheet_data(gc, sheet_id)
CargarHoja100(c) ==
    /\ df' = [df EXCEPT ![c] = worksheet]
    /\ UNCHANGED <<now, principal, worksheet, pc_u, fila_i>>

\* page "Comprar Numero": the form offers available_numbers of the page's df and
\* a seller's name; the row is appended and the script reruns
Comprar(c, n, v) ==
    /\ n \in Rango(get_available_numbers(df[c]))
    /\ worksheet' = Append(worksheet, FilaHoja(now, v, n, "vendido"))
    /\ df' = [df EXCEPT ![c] = worksheet']
    /\ UNCHANGED <<now, principal, pc_u, fila_i>>

\* "Agregar Venta Manual" of the seller panel: the same append
VentaManual(c, n, v) ==
    /\ n \in Rango(get_available_numbers(df[c]))
    /\ worksheet' = Append(worksheet, FilaHoja(now, v, n, "vendido"))
    /\ df' = [df EXCEPT ![c] = worksheet']
    /\ UNCHANGED <<now, principal, pc_u, fila_i>>

Next100 ==
    \/ Pasa
    \/ \E c \in Vendedores :
          \/ CargarHoja100(c)
          \/ \E n \in Numeros, v \in Vendedores : Comprar(c, n, v)
          \/ \E n \in Numeros, v \in Vendedores : VentaManual(c, n, v)

\* the clients of rifa_multivendedor-100nros.py, every page open at the same time
Spec100 == Init /\ [][Next100]_vars

\* ------------------------------------------------------------ properties
FilasDe(hoja, n) == {i \in DOMAIN hoja : hoja[i].numero = n}

\* rows of reservas for n whose expiry is still ahead
FilasVivas(n) == {i \in FilasDe(reservas, n) : now < reservas[i].expira_en}

\* rows of reservas for n that are not past their expiry (now > expira_en
\* is what the reap deletes): FilasVivas and the rows expiring this instant
FilasNoVencidas(n) == {i \in FilasDe(reservas, n) : ~(now > reservas[i].expira_en)}

\* sellers other than s that own a reservation row of n not past its expiry
OtrosTitulares(n, s) == {reservas[i].vendedor : i \in FilasNoVencidas(n)} \ {s}

\* this step is a step of seller s
Actua(s) == <<pc[s], rows_to_delete[s]>>' # <<pc[s], rows_to_delete[s]>>

\* this step ends the method seller s is running
Termina(s) == pc[s] # "retorno" /\ pc'[s] = "retorno"

\* seller s is back from method o
DeVuelta(s, o) == pc[s] = "retorno" /\ op[s] = o

\* C1: under interleaving of the sellers' ledger calls, every reachable
\* state has at most one row of "ventas" per ticket number.
C1_UnaVentaPorNumero ==
    \A n \in Numeros : Cardinality(FilasDe(ventas, n)) <= 1

\* C2: under interleaving of two sellers' Reserve on one ticket, every
\* reachable state has at most one unexpired reservation row for the ticket.
C2_UnaReservaVivaPorNumero ==
    \A n \in Numeros : Cardinality(FilasVivas(n)) <= 1

\* C3: methods one after another: a Reserve(t, B) decided while seller A # B
\* owns an unexpired reservation of t is rejected with a reason naming A,
\* appends nothing and leaves the reservas sheet, A's row included, as it was.
C3_ReservaAjenaRechaza ==
    [][\A s \in Vendedores : \A a \in Vendedores \ {s} :
          (/\ pc[s] = "leer_reservas" /\ op[s] = "reservar" /\ Actua(s)
           /\ a \in OtrosTitulares(numero[s], s))
          => /\ pc'[s] = "retorno"
             /\ ret'[s] = Retorno("False", "Numero reservado por", a)
             /\ reservas' = reservas]_vars

C3_Testigo ==
    \E s \in Vendedores :
        /\ DeVuelta(s, "reservar")
        /\ ret[s].msg = "Numero reservado por"
        /\ ret[s].quien # s
        /\ ret[s].quien \in OtrosTitulares(numero[s], s)

\* C4: methods one after another: a second Reserve(t, A) by the holder of an
\* unexpired reservation of t returns success and t keeps its single row.
C4_ReservaPropiaIdempotente ==
    \A s \in Vendedores :
        (/\ DeVuelta(s, "reservar")
         /\ \E i \in FilasVivas(numero[s]) : reservas[i].vendedor = s)
        => /\ ret[s].ok = "True"
           /\ Cardinality(FilasDe(reservas, numero[s])) = 1

\* C5: methods one after another: a Confirm that returns success leaves a
\* sale row of its seller for the ticket and no reservation row of the
\* ticket; every Reserve decided on a ticket that has a sale row is rejected
\* as already sold and appends nothing.
C5_VendidoTrasConfirmar ==
    [][\A s \in Vendedores :
          /\ (Termina(s) /\ op[s] = "confirmar" /\ ret'[s].ok = "True")
             => /\ \E i \in FilasDe(ventas', numero[s]) : ventas'[i].vendedor = s
                /\ FilasDe(reservas', numero[s]) = {}
          /\ (/\ pc[s] = "leer_reservas" /\ op[s] = "reservar" /\ Actua(s)
              /\ FilasDe(ventas, numero[s]) # {})
             => /\ pc'[s] = "retorno"
                /\ ret'[s] = Retorno("False", "Numero ya vendido", "-")
                /\ reservas' = reservas]_vars

C5_Testigo ==
    \E s \in Vendedores :
        /\ DeVuelta(s, "reservar")
        /\ ret[s].msg = "Numero ya vendido"
        /\ \E i \in FilasDe(ventas, numero[s]) : ventas[i].vendedor # s
        /\ FilasDe(reservas, numero[s]) = {}

\* C6: a Confirm(t, A) decided while reservas has no row of t is rejected
\* as not reserved, and no step of that call writes to ventas.
C6_ConfirmarSinReserva ==
    [][\A s \in Vendedores :
          /\ (/\ pc[s] = "leer_reservas" /\ op[s] = "confirmar" /\ Actua(s)
              /\ FilasDe(reservas, numero[s]) = {})
             => /\ pc'[s] = "retorno"
                /\ ret'[s] = Retorno("False", "Numero no esta reservado", "-")
          /\ (/\ op[s] = "confirmar" /\ Actua(s)
              /\ pc[s] \in {"limpiar_leer", "limpiar_borrar", "leer_reservas"})
             => ventas' = ventas]_vars

C6_Testigo ==
    \E s \in Vendedores :
        /\ DeVuelta(s, "confirmar")
        /\ ret[s].msg = "Numero no esta reservado"
        /\ FilasDe(reservas, numero[s]) = {}
        /\ FilasDe(ventas, numero[s]) = {}

\* C7: methods one after another: a Confirm(t, A) decided while another
\* seller B owns the unexpired reservation of t is rejected as not owner and
\* leaves both sheets as they were.
C7_ConfirmarAjena ==
    [][\A s \in Vendedores :
          (/\ pc[s] = "leer_reservas" /\ op[s] = "confirmar" /\ Actua(s)
           /\ OtrosTitulares(numero[s], s) # {})
          => /\ pc'[s] = "retorno"
             /\ ret'[s] = Retorno("False", "No tienes la reserva de este numero", "-")
             /\ ventas' = ventas
             /\ reservas' = reservas]_vars

C7_Testigo ==
    \E s \in Vendedores :
        /\ DeVuelta(s, "confirmar")
        /\ ret[s].msg = "No tienes la reserva de este numero"
        /\ OtrosTitulares(numero[s], s) # {}
        /\ FilasDe(ventas, numero[s]) = {}

\* C8: under any interleaving, when Confirm(t, S) appends its sale row, an
\* unexpired reservation row of t owned by S is in the ledger and no other
\* seller owns an unexpired reservation row of t.
C8_VentaConReservaViva ==
    [][\A s \in Vendedores :
          (pc[s] = "agregar_venta" /\ Actua(s))
          => /\ \E i \in FilasNoVencidas(numero[s]) : reservas[i].vendedor = s
             /\ \A i \in FilasVivas(numero[s]) : reservas[i].vendedor = s]_vars

\* C9: methods one after another: a Cancel(t, A) that runs while another
\* seller B owns the unexpired reservation of t deletes nothing: both sheets
\* stay as they were.
C9_CancelarAjena ==
    [][\A s \in Vendedores :
          (/\ pc[s] = "cancelar_leer" /\ op[s] = "cancelar" /\ Actua(s)
           /\ OtrosTitulares(numero[s], s) # {})
          => /\ pc'[s] = "retorno"
             /\ reservas' = reservas
             /\ ventas' = ventas]_vars

C9_Testigo ==
    \E s \in Vendedores :
        /\ DeVuelta(s, "cancelar")
        /\ OtrosTitulares(numero[s], s) # {}
        /\ FilasDe(reservas, numero[s]) # {}

\* C10: the value Cancel(t, A) returns tells what happened: not reserved
\* when reservas has no row of t, not owner when the rows of t are another
\* seller's, success only when a row of A was deleted.
C10_CancelarInforma ==
    [][\A s \in Vendedores :
          (Termina(s) /\ op[s] = "cancelar")
          => IF pc[s] = "cancelar_borrar"
             THEN ret'[s].ok = "True"
             ELSE /\ ret'[s].ok = "False"
                  /\ ret'[s].msg = IF FilasDe(reservas, numero[s]) = {}
                                   THEN "Numero no esta reservado"
                                   ELSE "No tienes la reserva de este numero"]_vars

\* C11: a sale row is never removed or changed (ventas only grows at its
\* end), a page load that reads ventas while number n has a sale row gets n
\* in numeros_vendidos, keeps it until the grid is drawn, and the grid shows
\* every number of numeros_vendidos as sold, reserved or not.
C11_VendidoTerminal ==
    [][/\ Len(ventas') >= Len(ventas)
       /\ SubSeq(ventas', 1, Len(ventas)) = ventas
       /\ \A s \in Vendedores :
             /\ (pc[s] = "leer_ventas" /\ Actua(s))
                => \A n \in Numeros :
                      FilasDe(ventas, n) # {} => n \in DOMAIN vendidos'[s]
             /\ (op[s] = "cargar" /\ pc[s] \in {"limpiar_leer", "limpiar_borrar"} /\ Actua(s))
                => vendidos'[s] = vendidos[s]
             /\ (op[s] = "cargar" /\ Termina(s))
                => \A n \in DOMAIN vendidos[s] :
                      Estado(n, vendidos'[s], reservados'[s]) = "vendido"]_vars

C11_Testigo ==
    \E s \in Vendedores : \E n \in Numeros :
        /\ DeVuelta(s, "cargar")
        /\ n \in DOMAIN vendidos[s]
        /\ n \in DOMAIN reservados[s]
        /\ Estado(n, vendidos[s], reservados[s]) = "vendido"

\* C12: methods one after another: a Reserve(t, B) is rejected only when t
\* has a sale row or a reservation row that was not strictly past its expiry
\* when the call was made; so once the clock is strictly past the expiry of
\* A's unconfirmed reservation, B's Reserve succeeds, and after a successful
\* Reserve the only reservation row of t is the caller's.
C12_ReservaTrasVencer ==
    \A s \in Vendedores :
        DeVuelta(s, "reservar")
        => /\ ret[s].ok = "False"
              => \/ FilasDe(ventas, numero[s]) # {}
                 \/ \E i \in FilasDe(reservas, numero[s]) :
                       ~(inicio[s] > reservas[i].expira_en)
           /\ ret[s].ok = "True"
              => /\ Cardinality(FilasDe(reservas, numero[s])) = 1
                 /\ \A i \in FilasDe(reservas, numero[s]) : reservas[i].vendedor = s

\* B's Reserve, called strictly after the expiry of A's row, is deleting it
C12_Testigo ==
    \E s \in Vendedores :
        /\ op[s] = "reservar"
        /\ pc[s] = "limpiar_borrar"
        /\ FilasDe(ventas, numero[s]) = {}
        /\ LET k == rows_to_delete[s][Len(rows_to_delete[s])]
           IN /\ k \in FilasDe(reservas, numero[s])
              /\ reservas[k].vendedor # s
              /\ inicio[s] > reservas[k].expira_en

\* C13: methods one after another: when a reap pass has ended and the clock
\* has not moved since the call, no row of reservas is past its expiry, so a
\* second pass at this clock deletes nothing and leaves the sheet as it is.
C13_LimpiarIdempotente ==
    \A s \in Vendedores :
        (pc[s] = "leer_reservas" /\ now = inicio[s])
        => /\ \A i \in DOMAIN reservas : ~(now > reservas[i].expira_en)
           /\ SinVencidas(reservas, now) = reservas

\* the second call ever made has just reaped the row the first one appended
C13_Testigo ==
    \E s \in Vendedores :
        /\ pc[s] = "leer_reservas"
        /\ now = inicio[s]
        /\ now > minutos
        /\ llamadas = 2
        /\ reservas = <<>>
        /\ ventas = <<>>

\* C14: fail closed: a reservar_numero in which the read of ventas or the
\* read of reservas raised does not go on to append a reservation row and
\* does not return success.
C14_FallaCerrada ==
    \A s \in Vendedores :
        (op[s] = "reservar" /\ fallo[s])
        => /\ pc[s] # "agregar_reserva"
           /\ ret[s].ok # "True"

\* C15: while a confirmar_venta is past its checks, and after it returned
\* success, its number has a row in ventas or a row in reservas: the ledger
\* never shows the number as available.
C15_NuncaDisponible ==
    \A s \in Vendedores :
        (/\ op[s] = "confirmar"
         /\ pc[s] \in {"agregar_venta", "cancelar_leer", "cancelar_borrar", "retorno"}
         /\ pc[s] = "retorno" => ret[s].ok = "True")
        => Estado(numero[s], DictPorNumero(ventas), DictPorNumero(reservas)) # "disponible"

\* C16: a reservar_numero is rejected as "reserved by" only when the number
\* has a reservation row that was not past its expiry when the call was
\* made; rows already expired, removed or not, do not block it.
C16_VencidaNoBloquea ==
    \A s \in Vendedores :
        (DeVuelta(s, "reservar") /\ ret[s].msg = "Numero reservado por")
        => \E i \in FilasDe(reservas, numero[s]) :
              ~(inicio[s] > reservas[i].expira_en)

\* C17: a confirmar_venta passes its checks only when the caller has a
\* reservation row of the number that was not past its expiry when the call
\* was made, whether or not expired rows are still in the sheet.
C17_ConfirmarVencida ==
    \A s \in Vendedores :
        pc[s] = "agregar_venta"
        => \E i \in FilasDe(reservas, numero[s]) :
              /\ reservas[i].vendedor = s
              /\ ~(inicio[s] > reservas[i].expira_en)

\* C18: expiry boundary: when a reap pass made at instant now has ended and
\* the clock has not moved, every row left in reservas expires strictly
\* after now; a row with expira_en = now is gone.
C18_LimiteVencimiento ==
    \A s \in Vendedores :
        (pc[s] = "leer_reservas" /\ now = inicio[s])
        => \A i \in DOMAIN reservas : now < reservas[i].expira_en

\* C19: every row a reap pass deletes is, when it is deleted, a reservation
\* row whose expiry has passed.
C19_LimpiarSoloVencidas ==
    [][\A s \in Vendedores :
          (pc[s] = "limpiar_borrar" /\ Actua(s) /\ reservas' # reservas)
          => LET k == rows_to_delete[s][Len(rows_to_delete[s])]
             IN now > reservas[k].expira_en]_vars

\* C20: the row deleted by cancelar_reserva(t, A), called from the page or
\* from confirmar_venta, is a row of number t and seller A.
C20_BorraSoloPropia ==
    [][\A s \in Vendedores :
          (pc[s] = "cancelar_borrar" /\ Actua(s) /\ reservas' # reservas)
          => /\ reservas[fila[s]].numero = numero[s]
             /\ reservas[fila[s]].vendedor = s]_vars

\* every reservation row whose expiry the clock can pass
FilasPosibles ==
    {FilaReserva(n, v, t, t + minutos) :
        n \in Numeros, v \in Vendedores, t \in 0..(MaxTime - minutos - 1)}

FilaEn(hoja, r) == \E i \in DOMAIN hoja : hoja[i] = r

\* C21: when the pages keep reloading and the sheet calls of the reap do not
\* raise forever, every reservation row whose expiry has passed is eventually
\* deleted, and its number, when it has no sale, eventually stops being
\* blocked: no row of it is left, or it is sold, or it is reserved anew.
C21_VencidaNoBloqueaSiempre ==
    /\ \A r \in FilasPosibles :
          (FilaEn(reservas, r) /\ now > r.expira_en) ~> ~FilaEn(reservas, r)
    /\ \A n \in Numeros :
          (/\ \E i \in FilasDe(reservas, n) : now > reservas[i].expira_en
           /\ FilasDe(ventas, n) = {})
          ~> \/ FilasDe(reservas, n) = {}
             \/ FilasDe(ventas, n) # {}
             \/ FilasVivas(n) # {}

\* a reload has just deleted the expired row that was the only row
C21_Testigo ==
    \E s \in Vendedores :
        /\ op[s] = "cargar"
        /\ pc[s] = "leer_reservas"
        /\ llamadas = MaxLlamadas
        /\ now > minutos
        /\ now = inicio[s]
        /\ reservas = <<>>
        /\ ventas = <<>>

\* C22: in the snapshot of a page load every number gets exactly one of the
\* three states: sold exactly when it is in numeros_vendidos, available
\* exactly when step 1 offers it, reserved otherwise; a number in both
\* dicts is sold.
C22_UnEstadoPorNumero ==
    \A s \in Vendedores :
        DeVuelta(s, "cargar")
        => \A n \in Numeros :
              LET e == Estado(n, vendidos[s], reservados[s])
              IN /\ e \in {"vendido", "reservado", "disponible"}
                 /\ e = "vendido" <=> n \in DOMAIN vendidos[s]
                 /\ e = "disponible"
                       <=> n \in numeros_disponibles(vendidos[s], reservados[s])
                 /\ e = "reservado"
                       <=> (n \in DOMAIN reservados[s] /\ n \notin DOMAIN vendidos[s])

\* a snapshot of a number that has a sale row and a reservation row
C22_Testigo ==
    \E s \in Vendedores : \E n \in Numeros :
        /\ DeVuelta(s, "cargar")
        /\ FilasDe(ventas, n) # {}
        /\ FilasDe(reservas, n) # {}
        /\ n \in DOMAIN vendidos[s] \cap DOMAIN reservados[s]
        /\ n \notin numeros_disponibles(vendidos[s], reservados[s])

\* C24: a page load that reads two live reservation rows of one number
\* reports the number as sold.
C24_DuplicadoVendido ==
    [][\A s \in Vendedores :
          (op[s] = "cargar" /\ pc[s] = "leer_reservas" /\ Actua(s))
          => \A n \in Numeros :
                Cardinality(FilasVivas(n)) >= 2
                => Estado(n, vendidos'[s], reservados'[s]) = "vendido"]_vars

\* C25: the seller that a read of ventas reports for a sold number never
\* changes.
C25_VendedorEstable ==
    [][\A n \in DOMAIN DictPorNumero(ventas) :
          /\ n \in DOMAIN DictPorNumero(ventas')
          /\ DictPorNumero(ventas')[n].vendedor = DictPorNumero(ventas)[n].vendedor]_vars

\* C28: a step of limpiar_reservas_expiradas leaves ventas as it is, and
\* every number with a sale row still has it.
C28_LimpiarNoTocaVentas ==
    [][\A s \in Vendedores :
          (pc[s] \in {"limpiar_leer", "limpiar_borrar"} /\ Actua(s))
          => /\ ventas' = ventas
             /\ \A n \in Numeros :
                   Estado(n, DictPorNumero(ventas), DictPorNumero(reservas)) = "vendido"
                   => Estado(n, DictPorNumero(ventas'), DictPorNumero(reservas')) = "vendido"]_vars

\* a reap has deleted the reservation row of a confirm that has appended
\* its sale and is about to delete that row itself
C28_Testigo ==
    \E a \in Vendedores : \E b \in Vendedores \ {a} :
        /\ op[a] = "confirmar"
        /\ pc[a] = "cancelar_borrar"
        /\ FilasDe(ventas, numero[a]) # {}
        /\ FilasDe(reservas, numero[a]) = {}
        /\ pc[b] = "leer_reservas"

\* C29: when a delete of the reap raises, the pass goes on with the rows it
\* has still to delete.
C29_LimpiarSigue ==
    [][\A s \in Vendedores :
          (pc[s] = "limpiar_borrar" /\ Actua(s) /\ reservas' = reservas)
          => rows_to_delete'[s]
                = SubSeq(rows_to_delete[s], 1, Len(rows_to_delete[s]) - 1)]_vars

\* C23: a reservar_numero called with a number outside the raffle does not
\* return success, and reservas never holds a row of such a number.
C23_ArgumentoInvalido ==
    /\ \A s \in Vendedores :
          (op[s] = "reservar" /\ numero[s] \notin Numeros) => ret[s].ok # "True"
    /\ \A i \in DOMAIN reservas : reservas[i].numero \in Numeros

\* C26: a session whose numero_reservado names a number of which the seller
\* has no reservation row left (it expired and was reaped) eventually has
\* numero_reservado None again.
C26_PunteroSeLimpia ==
    \A s \in Vendedores :
        (/\ numero_reservado[s] # 0
         /\ \A i \in FilasDe(reservas, numero_reservado[s]) : reservas[i].vendedor # s)
        ~> numero_reservado[s] = 0

\* C27: the live reservation rows of one seller are of one number at most.
C27_UnaReservaPorSesion ==
    \A s \in Vendedores :
        Cardinality({reservas[i].numero :
                        i \in {j \in DOMAIN reservas :
                                  /\ reservas[j].vendedor = s
                                  /\ now < reservas[j].expira_en}}) <= 1

\* C30: when a confirmar_venta reads two or more live reservation rows of
\* its number, one of them with a timestamp before all the others, it passes
\* its checks exactly when the caller is the seller of that earliest row.
C30_PrimeraReservaGana ==
    [][\A s \in Vendedores :
          (op[s] = "confirmar" /\ pc[s] = "leer_reservas" /\ Actua(s))
          => LET vivas == FilasVivas(numero[s])
                 primera == {i \in vivas :
                               \A j \in vivas \ {i} :
                                  reservas[i].timestamp_reserva
                                     < reservas[j].timestamp_reserva}
             IN \A i \in primera :
                   Cardinality(vivas) >= 2
                   => (pc'[s] = "agregar_venta" <=> reservas[i].vendedor = s)]_vars

\* C31: the step of a reservar_numero that makes it return success appends
\* exactly one row (numero, vendedor, now, now + minutos) to reservas; no
\* other step of a reservar_numero appends anything, so a rejected call has
\* appended nothing.
C31_UnaFilaPorReserva ==
    [][\A s \in Vendedores :
          (op[s] = "reservar" /\ Actua(s))
          => /\ ventas' = ventas
             /\ IF ret'[s].ok = "True" /\ ret[s].ok # "True"
                THEN /\ reservas' = Append(reservas,
                                       [numero |-> numero[s], vendedor |-> s,
                                        timestamp_reserva |-> ahora[s],
                                        expira_en |-> ahora[s] + minutos])
                     /\ ahora[s] <= now
                ELSE Len(reservas') <= Len(reservas)]_vars

\* a reservar_numero is back with success and its row is the last of the sheet
C31_Testigo ==
    \E s \in Vendedores :
        /\ DeVuelta(s, "reservar")
        /\ ret[s].ok = "True"
        /\ reservas # <<>>
        /\ reservas[Len(reservas)].vendedor = s
        /\ reservas[Len(reservas)].numero = numero[s]
        /\ reservas[Len(reservas)].expira_en
              = reservas[Len(reservas)].timestamp_reserva + minutos

\* C32: when the append of reservar_numero raises, the call returns failure
\* and the ledger is as before; when the append of confirmar_venta raises,
\* the call returns failure at once, with no sale row written and no
\* reservation row deleted; the append is not tried again.
C32_FallaDeEscritura ==
    [][\A s \in Vendedores :
          /\ (pc[s] = "agregar_reserva" /\ Actua(s) /\ reservas' = reservas)
             => /\ ret'[s].ok = "False"
                /\ pc'[s] = "retorno"
                /\ ventas' = ventas
          /\ (pc[s] = "agregar_venta" /\ Actua(s) /\ ventas' = ventas)
             => /\ ret'[s].ok = "False"
                /\ pc'[s] = "retorno"
                /\ reservas' = reservas
          /\ (pc[s] = "retorno" /\ Actua(s))
             => ventas' = ventas /\ reservas' = reservas]_vars

\* a confirmar_venta is back from a failed append: no sale, its row is there
C32_Testigo ==
    \E s \in Vendedores :
        /\ DeVuelta(s, "confirmar")
        /\ ret[s].msg = "Error confirmando venta"
        /\ FilasDe(ventas, numero[s]) = {}
        /\ \E i \in FilasDe(reservas, numero[s]) : reservas[i].vendedor = s

\* C35: methods one after another and no sheet failure: whenever no method
\* is running, every number has at most one row in reservas, at most one
\* row in ventas, and not a row in both.
C35_LedgerConsistente ==
    (\A s \in Vendedores : pc[s] = "idle")
    => \A n \in Numeros :
          /\ Cardinality(FilasDe(reservas, n)) <= 1
          /\ Cardinality(FilasDe(ventas, n)) <= 1
          /\ FilasDe(reservas, n) = {} \/ FilasDe(ventas, n) = {}

\* no method is running, a number is sold and its reservation row is gone
C35_Testigo ==
    /\ \A s \in Vendedores : pc[s] = "idle"
    /\ \E n \in Numeros :
          /\ Cardinality(FilasDe(ventas, n)) = 1
          /\ FilasDe(reservas, n) = {}

\* C36: a confirmar_venta appends its sale row only when its number has no
\* row in ventas yet.
C36_ConfirmarYaVendido ==
    [][\A s \in Vendedores :
          (pc[s] = "agregar_venta" /\ Actua(s) /\ ventas' # ventas)
          => FilasDe(ventas, numero[s]) = {}]_vars

\* C37: in the snapshot of a page load the metric of available numbers is
\* the number of green cells of the grid, and the three metrics add up to
\* the size of the raffle.
C37_ContadoresConsistentes ==
    \A s \in Vendedores :
        DeVuelta(s, "cargar")
        => /\ vendidos_count(vendidos[s]) + reservados_count(reservados[s])
                 + disponibles_count(vendidos[s], reservados[s]) = MaxNumero
           /\ disponibles_count(vendidos[s], reservados[s])
                 = Cardinality({n \in Numeros :
                      Estado(n, vendidos[s], reservados[s]) = "disponible"})

\* ---- C33 (rifa_reservas.py): a sale is immutable once written. While a row
\* has estado 'vendido' with seller X, and X is not in the middle of writing
\* it, no step changes the row's seller or date
C33_VentaInmutable ==
    [][\A i \in DOMAIN worksheet :
          ( /\ worksheet[i].estado = "vendido"
            /\ worksheet[i].vendedor \in Vendedores
            /\ pc_u[worksheet[i].vendedor] = "idle" )
          => /\ worksheet'[i].vendedor = worksheet[i].vendedor
             /\ worksheet'[i].fecha = worksheet[i].fecha]_vars

\* ---- C34 (rifa_multivendedor-100nros.py): a purchase or manual sale never
\* adds a 'vendido' row for a number that already has one
VendidasDe(h, n) == {i \in DOMAIN h : h[i].numero = n /\ h[i].estado = "vendido"}

C34_SinSegundaVenta ==
    [][\A n \in Numeros :
          VendidasDe(worksheet, n) # {}
          => VendidasDe(worksheet', n) = VendidasDe(worksheet, n)]_vars

\* ---- C38 (rifa_reservas.py): the three lists get_numbers_by_status returns
\* for a page's df hold no number twice, are pairwise disjoint and cover
\* exactly the numbers of the raffle
SinRepetidos(l) == \A j, k \in DOMAIN l : j # k => l[j] # l[k]

C38_ListasParticion ==
    \A c \in Vendedores :
       LET st == get_numbers_by_status(df[c])
       IN /\ SinRepetidos(st.disponibles \o st.reservados \o st.vendidos)
          /\ Rango(st.disponibles \o st.reservados \o st.vendidos) = Numeros

====
